---- MODULE Spec2Model ----
(***************************************************************************)
(* Model of scripts/process_favicon.py: the background-removal pipeline    *)
(* (remove_dark_background), the favicon thumbnail (create_favicon) and    *)
(* the multi-size export (create_favicon_sizes), run by __main__.          *)
(*                                                                         *)
(* An image is a raster of RGBA pixels.  It is represented sparsely: a     *)
(* size w x h, a pixel value `fill' carried by every coordinate that is    *)
(* not listed, and a finite map `pts' from coordinates to the pixel value  *)
(* found there.  An image produced by Lanczos resampling has its pixel     *)
(* values left unspecified (resampled = TRUE); only its size is known.     *)
(* Python objects live in `heap'; variables holding an image hold a        *)
(* reference (an index into heap), so that copy() and in-place mutation    *)
(* are distinguished.                                                      *)
(***************************************************************************)
EXTENDS Integers, Sequences, FiniteSets, TLC

\* ------------------------------------------------------------------ bounds

\* Largest number of coordinates of a source image whose pixel differs from
\* the image's fill.
MaxPts == 2

\* Sizes (width, height) of the source images considered.
Sizes == {<<10, 10>>, <<50, 50>>, <<100, 100>>, <<500, 300>>, <<300, 100>>}

\* Pixel values (r, g, b, a) a source image may be filled with: both sides of
\* every threshold of the classifier, with opaque, translucent and
\* transparent alpha.
FillSamples ==
    { <<20, 20, 20, 255>>,      \* dark gray
      <<20, 20, 20, 0>>,        \* dark gray, already transparent
      <<80, 101, 0, 255>>,      \* g = 101 > 100, g = 101 > r + 20 = 100
      <<81, 101, 0, 255>>,      \* g = r + 20, b <= r + 20
      <<81, 101, 102, 128>>,    \* b = 102 > r + 20 = 101
      <<80, 100, 200, 255>>,    \* g = 100
      <<200, 151, 151, 255>>,   \* only b > 150 and g > 150
      <<200, 151, 150, 255>>,   \* b = 150
      <<200, 150, 151, 200>>,   \* g = 150
      <<0, 200, 200, 0>> }      \* cyan, already transparent

\* Pixel values found at the coordinates that differ from the fill.
PixelSamples ==
    { <<20, 20, 20, 255>>, <<80, 101, 0, 255>>, <<81, 101, 102, 128>>,
      <<200, 151, 151, 255>>, <<0, 200, 200, 0>> }

\* Coordinates (x, y), 0-based, that may carry a pixel other than the fill.
Positions(w, h) ==
    { p \in { <<0, 0>>, <<7, 9>>, <<w - 1, h - 1>>, <<w - 9, h - 7>> } :
        /\ 0 <= p[1] /\ p[1] < w
        /\ 0 <= p[2] /\ p[2] < h }

\* ------------------------------------------------------------------ images

NoPixel == <<>>

EmptyPts == [q \in {} |-> NoPixel]

PtMaps(w, h) ==
    UNION { [D -> PixelSamples] :
              D \in { E \in SUBSET Positions(w, h) : Cardinality(E) <= MaxPts } }

SourceImages ==
    UNION { { [w |-> s[1], h |-> s[2], fill |-> f, pts |-> m, resampled |-> FALSE] :
                f \in FillSamples, m \in PtMaps(s[1], s[2]) } :
            s \in Sizes }

\* pixels[x, y]
PixelAt(image, x, y) ==
    IF <<x, y>> \in DOMAIN image.pts THEN image.pts[<<x, y>>] ELSE image.fill

Max(a, b) == IF a >= b THEN a ELSE b

Min(a, b) == IF a <= b THEN a ELSE b

Abs(a) == IF a >= 0 THEN a ELSE -a

SetMax(S) == CHOOSE m \in S : \A n \in S : n <= m

SetMin(S) == CHOOSE m \in S : \A n \in S : m <= n

\* ------------------------------------------- remove_dark_background: pixels

\* The classifier without its second rule.
IsCarColorFirstRuleOnly(p) ==
    p[2] > 100 /\ (p[2] > p[1] + 20 \/ p[3] > p[1] + 20)

\* is_car_color after both rules
IsCarColor(p) ==
    LET r == p[1]
        g == p[2]
        b == p[3]
    IN  \/ (g > 100 /\ (g > r + 20 \/ b > r + 20))
        \/ (b > 150 /\ g > 150)

\* A background pixel written with its alpha alone cleared.
ClassifyPixelAlphaOnly(p) ==
    IF IsCarColor(p) THEN p ELSE <<p[1], p[2], p[3], 0>>

\* The value of pixels[x, y] after the loop body
ClassifyPixel(p) ==
    IF IsCarColor(p) THEN p ELSE <<0, 0, 0, 0>>

\* The two nested loops over the whole raster
Classify(image) ==
    [image EXCEPT !.fill = ClassifyPixel(@),
                  !.pts = [q \in DOMAIN @ |-> ClassifyPixel(@[q])]]

\* ------------------------------------- remove_dark_background: bbox and crop

\* Python's None
None == <<>>

padding == 5

\* The bounding box of an RGBA image: the box (left, upper, right, lower), right
\* and lower exclusive, of the pixels whose alpha is not 0; None when there is
\* none.  Every row and every column holds a coordinate that is not in pts
\* (Cardinality(DOMAIN pts) < Min(w, h)), so a fill with alpha # 0 reaches
\* all four edges.
AlphaBBox(image) ==
    LET S == { q \in DOMAIN image.pts : image.pts[q][4] # 0 }
    IN  IF image.fill[4] # 0
        THEN <<0, 0, image.w, image.h>>
        ELSE IF S = {}
        THEN None
        ELSE << SetMin({ q[1] : q \in S }), SetMin({ q[2] : q \in S }),
                SetMax({ q[1] : q \in S }) + 1, SetMax({ q[2] : q \in S }) + 1 >>

\* getbbox() giving an empty rectangle instead of None for a blank image.
GetBBoxZeroRect(image) ==
    LET bb == AlphaBBox(image)
    IN  IF bb = None THEN <<0, 0, 0, 0>> ELSE bb

\* img.getbbox() as the program calls it (alpha_only is left at its default)
GetBBox(image) == AlphaBBox(image)

\* The padded rectangle without the clamping against the image.
CropBoxUnclamped(bb, wd, ht) ==
    << bb[1] - padding, bb[2] - padding, bb[3] + padding, bb[4] + padding >>

\* (left, top, right, bottom)
CropBox(bb, wd, ht) ==
    << Max(0, bb[1] - padding), Max(0, bb[2] - padding),
       Min(wd, bb[3] + padding), Min(ht, bb[4] + padding) >>

\* img.crop(box), for a box inside the image
Crop(image, box) ==
    LET inside == { p \in DOMAIN image.pts :
                      /\ box[1] <= p[1] /\ p[1] < box[3]
                      /\ box[2] <= p[2] /\ p[2] < box[4] }
    IN  [ w |-> box[3] - box[1],
          h |-> box[4] - box[2],
          fill |-> image.fill,
          pts |-> [ q \in { <<p[1] - box[1], p[2] - box[2]>> : p \in inside } |->
                      image.pts[<<q[1] + box[1], q[2] + box[2]>>] ],
          resampled |-> FALSE ]

\* ------------------------------------------------------ thumbnail and resize

\* round_aspect(y * aspect, key = |aspect - n / y|), aspect = w / h: of the
\* floor and the ceiling of y * aspect the one whose ratio to y is nearer the
\* aspect, the floor first, and at least 1.  The library computes in floating
\* point; the keys are compared here as exact fractions, which gives the same
\* choice except when the two keys are exactly equal (no size reached in this
\* model has such a tie).
RoundAspectX(w, h, y) ==
    LET fl == (y * w) \div h
        cl == IF (y * w) % h = 0 THEN fl ELSE fl + 1
        key(n) == Abs(w * y - n * h)
    IN  Max(IF key(fl) <= key(cl) THEN fl ELSE cl, 1)

\* round_aspect(x / aspect, key = 0 if n == 0 else |aspect - x / n|), compared
\* as exact fractions like RoundAspectX
RoundAspectY(w, h, x) ==
    LET fl == (x * h) \div w
        cl == IF (x * h) % w = 0 THEN fl ELSE fl + 1
        floorFirst == \/ fl = 0
                      \/ Abs(w * fl - x * h) * cl <= Abs(w * cl - x * h) * fl
    IN  Max(IF floorFirst THEN fl ELSE cl, 1)

\* A thumbnail that always scales to the box, also upwards.
ThumbnailSizeUpsizing(w, h, x, y) ==
    IF x * h >= y * w
    THEN <<RoundAspectX(w, h, y), y>>
    ELSE <<x, RoundAspectY(w, h, x)>>

\* preserve_aspect_ratio() of Image.thumbnail: the size to scale to, None
\* when the image already fits in the box (x, y)
ThumbnailSize(w, h, x, y) ==
    IF x >= w /\ y >= h
    THEN None
    ELSE IF x * h >= y * w
    THEN <<RoundAspectX(w, h, y), y>>
    ELSE <<x, RoundAspectY(w, h, x)>>

\* The image a Lanczos resampling to `size' gives: its pixels are not modelled.
Resampled(size) ==
    [ w |-> size[1], h |-> size[2], fill |-> NoPixel, pts |-> EmptyPts,
      resampled |-> TRUE ]

\* A resize that keeps the aspect ratio, fitting inside `size'.
ResizeKeepAspect(image, size) ==
    LET fs == ThumbnailSize(image.w, image.h, size[1], size[2])
    IN  IF fs = None \/ fs = <<image.w, image.h>> THEN image ELSE Resampled(fs)

\* image.resize(size, LANCZOS): exactly `size'; a copy when the size is the same
Resize(image, size) ==
    IF size = <<image.w, image.h>> THEN image ELSE Resampled(size)

\* image.thumbnail(size, LANCZOS): the value of the image object afterwards
Thumbnail(image, size) ==
    LET fs == ThumbnailSize(image.w, image.h, size[1], size[2])
    IN  IF fs = None THEN image ELSE Resize(image, fs)

\* -------------------------------------------------------------- ICO writing

PairLess(a, b) == a[1] < b[1] \/ (a[1] = b[1] /\ a[2] < b[2])

RECURSIVE SortedPairs(_)
\* sorted(set(sizes))
SortedPairs(S) ==
    IF S = {}
    THEN <<>>
    ELSE LET m == CHOOSE a \in S : \A b \in S \ {a} : PairLess(a, b)
         IN  <<m>> \o SortedPairs(S \ {m})

SeqRange(s) == { s[i] : i \in 1..Len(s) }

SizeOf(image) == <<image.w, image.h>>

\* The images the ICO writer embeds, as their sizes in file order, when
\* provided[1] is saved with sizes = szs and append_images = Tail(provided):
\* the sizes are sorted; a size larger than provided[1] or than 256 is
\* dropped; a size for which an image was provided takes that image, any
\* other takes a thumbnail of provided[1]
IcoFrames(provided, szs) ==
    LET first == provided[1]
        ordered == SortedPairs(SeqRange(szs))
        kept == SelectSeq(ordered,
                          LAMBDA z : ~(\/ z[1] > first.w \/ z[2] > first.h
                                       \/ z[1] > 256 \/ z[2] > 256))
        frame(z) == IF \E i \in 1..Len(provided) : SizeOf(provided[i]) = z
                    THEN z
                    ELSE SizeOf(Thumbnail(first, z))
    IN  [ i \in 1..Len(kept) |-> frame(kept[i]) ]

\* ------------------------------------------------------------ the program

transparent_output == <<"client/public", "car-logo-transparent.png">>

favicon_output == <<"client/public", "favicon.png">>

public_dir == "client/public"

\* The dict `sizes', in insertion order, ordered by pixel size instead.
sizesBySize ==
    << <<"favicon-16x16.png", 16>>, <<"favicon-32x32.png", 32>>,
       <<"apple-touch-icon.png", 180>>, <<"favicon-192x192.png", 192>> >>

\* The dict `sizes', in insertion order (the order its items() are visited in)
sizes ==
    << <<"favicon-16x16.png", 16>>, <<"favicon-32x32.png", 32>>,
       <<"favicon-192x192.png", 192>>, <<"apple-touch-icon.png", 180>> >>

ico_sizes == << <<16, 16>>, <<32, 32>>, <<48, 48>> >>

VARIABLES
    pc,               \* the statement the run is at
    status,           \* "running", "failed" (uncaught exception) or "done"
    src,              \* the decoded RGBA raster of the input file
    heap,             \* the live image objects
    img,              \* remove_dark_background's img: a reference, 0 when unbound
    width, height,    \* remove_dark_background's width, height
    bbox,             \* remove_dark_background's bbox
    transparent_img,  \* __main__'s transparent_img: a reference, 0 when unbound
    idx,              \* position of the loop over sizes.items()
    ico_images,       \* create_favicon_sizes' ico_images: references
    files             \* the files written, in the order of the writes

vars == << pc, status, src, heap, img, width, height, bbox, transparent_img,
           idx, ico_images, files >>

\* What image.save(path, "PNG") writes: one image of the image's size
PngFile(path, image) ==
    [ path |-> path, format |-> "PNG", frames |-> <<SizeOf(image)>> ]

\* What provided[1].save(path, format="ICO", sizes=szs, append_images=...) writes
IcoFile(path, provided, szs) ==
    [ path |-> path, format |-> "ICO", frames |-> IcoFrames(provided, szs) ]

\* A "copy" that hands back the same object.
CopyAlias(h, ref) == [ heap |-> h, ref |-> ref ]

\* image.copy(): a new object with the same size and pixels
Copy(h, ref) == [ heap |-> Append(h, h[ref]), ref |-> Len(h) + 1 ]

\* The heap once the objects allocated after the first n are unreferenced
Release(h, n) == SubSeq(h, 1, n)

Init ==
    /\ pc = "makedirs"
    /\ status = "running"
    /\ src \in SourceImages
    /\ heap = <<>>
    /\ img = 0
    /\ width = 0
    /\ height = 0
    /\ bbox = None
    /\ transparent_img = 0
    /\ idx = 0
    /\ ico_images = <<>>
    /\ files = <<>>

\* An exception that also removes the files written so far.
RaiseAfterCleanup ==
    /\ status' = "failed"
    /\ files' = <<>>
    /\ UNCHANGED << pc, src, heap, img, width, height, bbox, transparent_img,
                    idx, ico_images >>

\* An exception nothing catches: the run ends where it is
Raise ==
    /\ status' = "failed"
    /\ UNCHANGED << pc, src, heap, img, width, height, bbox, transparent_img,
                    idx, ico_images, files >>

\* The statements that read or write the file system
IOPoints == { "makedirs", "open", "save", "favicon", "sizes", "ico_save" }

\* os.makedirs fails, the source is missing or undecodable, or a save fails
Fails ==
    /\ status = "running"
    /\ pc \in IOPoints
    /\ Raise

\* os.makedirs(public_dir, exist_ok=True)
MakeDirs ==
    /\ status = "running"
    /\ pc = "makedirs"
    /\ pc' = "open"
    /\ UNCHANGED << status, src, heap, img, width, height, bbox,
                    transparent_img, idx, ico_images, files >>

\* img = Image.open(input_path).convert("RGBA"); width, height = img.size
Open ==
    /\ status = "running"
    /\ pc = "open"
    /\ heap' = <<src>>
    /\ img' = 1
    /\ width' = src.w
    /\ height' = src.h
    /\ pc' = "classify"
    /\ UNCHANGED << status, src, bbox, transparent_img, idx, ico_images, files >>

\* The loops over y and x: the image object is changed in place
ClassifyPixels ==
    /\ status = "running"
    /\ pc = "classify"
    /\ heap' = [heap EXCEPT ![img] = Classify(@)]
    /\ pc' = "crop"
    /\ UNCHANGED << status, src, img, width, height, bbox, transparent_img,
                    idx, ico_images, files >>

\* bbox = img.getbbox(); if bbox: img = img.crop(...).  The uncropped object
\* is no longer referenced, and its place in the heap is taken by the crop.
CropToBBox ==
    /\ status = "running"
    /\ pc = "crop"
    /\ LET bb == GetBBox(heap[img])
       IN  /\ bbox' = bb
           /\ IF bb # None
              THEN heap' = [heap EXCEPT ![img] = Crop(@, CropBox(bb, width, height))]
              ELSE UNCHANGED heap
    /\ pc' = "save"
    /\ UNCHANGED << status, src, img, width, height, transparent_img, idx,
                    ico_images, files >>

\* img.save(output_path, "PNG"); return img, bound to transparent_img
SaveTransparent ==
    /\ status = "running"
    /\ pc = "save"
    /\ files' = Append(files, PngFile(transparent_output, heap[img]))
    /\ transparent_img' = img
    /\ img' = 0
    /\ width' = 0
    /\ height' = 0
    /\ bbox' = None
    /\ pc' = "favicon"
    /\ UNCHANGED << status, src, heap, idx, ico_images >>

\* create_favicon(transparent_img, favicon_output)
CreateFavicon ==
    /\ status = "running"
    /\ pc = "favicon"
    /\ LET c == Copy(heap, transparent_img)
           h2 == [c.heap EXCEPT ![c.ref] = Thumbnail(@, <<128, 128>>)]
       IN  /\ files' = Append(files, PngFile(favicon_output, h2[c.ref]))
           /\ heap' = Release(h2, Len(heap))
    /\ pc' = "sizes"
    /\ idx' = 1
    /\ UNCHANGED << status, src, img, width, height, bbox, transparent_img,
                    ico_images >>

\* One pass of the loop over sizes.items()
SizesIteration ==
    /\ status = "running"
    /\ pc = "sizes"
    /\ idx \in 1..Len(sizes)
    /\ LET filename == sizes[idx][1]
           size == sizes[idx][2]
           c == Copy(heap, transparent_img)
           resized == Resize(c.heap[c.ref], <<size, size>>)
       IN  /\ files' = Append(files, PngFile(<<public_dir, filename>>, resized))
           /\ heap' = Release(c.heap, Len(heap))
    /\ IF idx < Len(sizes)
       THEN idx' = idx + 1 /\ pc' = pc
       ELSE idx' = 0 /\ pc' = "ico_build"
    /\ UNCHANGED << status, src, img, width, height, bbox, transparent_img,
                    ico_images >>

\* The loop over ico_sizes, filling ico_images
BuildIcoImages ==
    /\ status = "running"
    /\ pc = "ico_build"
    /\ heap' = heap \o [ i \in 1..Len(ico_sizes) |->
                           LET c == Copy(heap, transparent_img)
                           IN  Resize(c.heap[c.ref], ico_sizes[i]) ]
    /\ ico_images' = [ i \in 1..Len(ico_sizes) |-> Len(heap) + i ]
    /\ pc' = "ico_save"
    /\ UNCHANGED << status, src, img, width, height, bbox, transparent_img,
                    idx, files >>

\* ico_images[0].save(ico_path, format="ICO", sizes=[...], append_images=...),
\* then the return to __main__ and the end of the run
SaveIco ==
    /\ status = "running"
    /\ pc = "ico_save"
    /\ LET provided == [ i \in 1..Len(ico_images) |-> heap[ico_images[i]] ]
           szs == [ i \in 1..Len(provided) |-> SizeOf(provided[i]) ]
       IN  files' = Append(files, IcoFile(<<public_dir, "favicon.ico">>, provided, szs))
    /\ heap' = Release(heap, Len(heap) - Len(ico_images))
    /\ ico_images' = <<>>
    /\ pc' = "done"
    /\ status' = "done"
    /\ UNCHANGED << src, img, width, height, bbox, transparent_img, idx >>

Next ==
    \/ MakeDirs
    \/ Open
    \/ ClassifyPixels
    \/ CropToBBox
    \/ SaveTransparent
    \/ CreateFavicon
    \/ SizesIteration
    \/ BuildIcoImages
    \/ SaveIco
    \/ Fails

Spec == Init /\ [][Next]_vars

\* The sources with at most one pixel that differs from the fill.
InitFair == Init /\ Cardinality(DOMAIN src.pts) <= 1

\* The run is one synchronous thread: it is scheduled until it ends
FairSpec == InitFair /\ [][Next]_vars /\ WF_vars(Next)

\* ------------------------------------------------------------ the properties

\* The coordinates the properties look at: every coordinate that carries a
\* pixel of its own, the four corners and the centre.
Probes(image) ==
    DOMAIN image.pts
      \cup { <<0, 0>>, <<image.w - 1, 0>>, <<0, image.h - 1>>,
             <<image.w - 1, image.h - 1>>, <<image.w \div 2, image.h \div 2>> }

\* The classification rule, as the specification words it.
KeepRule(p) ==
    \/ (p[2] > 100 /\ (p[2] > p[1] + 20 \/ p[3] > p[1] + 20))
    \/ (p[3] > 150 /\ p[2] > 150)

\* The run has classified the pixels and not yet cropped: heap[img] is the
\* classified raster, src the loaded one.
Classified == pc = "crop"

\* C1, as stated: a pixel's alpha is unchanged by the classification if and
\* only if (g > 100 and (g > r + 20 or b > r + 20)) or (b > 150 and g > 150),
\* and the alpha of every other pixel becomes 0.
C1_AlphaUnchangedIffKept ==
    Classified =>
        \A q \in Probes(src) :
            LET before == PixelAt(src, q[1], q[2])
                after == PixelAt(heap[img], q[1], q[2])
            IN  /\ (after[4] = before[4]) <=> KeepRule(before)
                /\ ~KeepRule(before) => after[4] = 0

\* C1, amended: a pixel that satisfies (g > 100 and (g > r + 20 or b > r + 20))
\* or (b > 150 and g > 150) keeps its alpha, and the alpha of every other pixel
\* becomes 0 (which leaves it unchanged when it was 0 already).
C1_AlphaKeptOrZero ==
    Classified =>
        \A q \in Probes(src) :
            LET before == PixelAt(src, q[1], q[2])
                after == PixelAt(heap[img], q[1], q[2])
            IN  /\ KeepRule(before) => after[4] = before[4]
                /\ ~KeepRule(before) => after[4] = 0

\* A pixel kept by the second rule alone beside a pixel whose alpha is cleared.
C1_Witness ==
    /\ Classified
    /\ \E q \in Probes(src) :
          LET before == PixelAt(src, q[1], q[2])
          IN  /\ before[3] > 150 /\ before[2] > 150
              /\ ~(before[2] > before[1] + 20 \/ before[3] > before[1] + 20)
              /\ before[4] # 0
              /\ PixelAt(heap[img], q[1], q[2])[4] = before[4]
    /\ \E q \in Probes(src) :
          /\ ~KeepRule(PixelAt(src, q[1], q[2]))
          /\ PixelAt(src, q[1], q[2])[4] # 0
          /\ PixelAt(heap[img], q[1], q[2])[4] = 0

\* C2, as stated: the classification leaves R, G and B of every pixel as they
\* were, for the kept pixels and for the pixels whose alpha is cleared.
C2_RGBUntouched ==
    Classified =>
        \A q \in Probes(src) :
            LET before == PixelAt(src, q[1], q[2])
                after == PixelAt(heap[img], q[1], q[2])
            IN  /\ after[1] = before[1]
                /\ after[2] = before[2]
                /\ after[3] = before[3]

\* C2, amended: the classification leaves all four channels of a kept pixel as
\* they were, and replaces every other pixel by (0, 0, 0, 0): R, G and B of a
\* background pixel are zeroed together with its alpha.
C2_KeptUntouchedBackgroundZeroed ==
    Classified =>
        \A q \in Probes(src) :
            LET before == PixelAt(src, q[1], q[2])
                after == PixelAt(heap[img], q[1], q[2])
            IN  /\ KeepRule(before) => after = before
                /\ ~KeepRule(before) => after = <<0, 0, 0, 0>>

\* A kept pixel beside a background pixel whose R, G, B were not 0.
C2_Witness ==
    /\ Classified
    /\ \E q \in Probes(src) :
          /\ KeepRule(PixelAt(src, q[1], q[2]))
          /\ PixelAt(heap[img], q[1], q[2]) = PixelAt(src, q[1], q[2])
    /\ \E q \in Probes(src) :
          /\ ~KeepRule(PixelAt(src, q[1], q[2]))
          /\ PixelAt(src, q[1], q[2])[1] > 0
          /\ PixelAt(heap[img], q[1], q[2]) = <<0, 0, 0, 0>>

\* The smallest box (left, upper, right, lower) holding every pixel of the
\* image whose alpha is not 0, stated on the pixels: none lies outside of
\* it and each of its four edges holds one.
IsBoxOfVisible(bb, image) ==
    LET visible == { q \in Probes(image) : PixelAt(image, q[1], q[2])[4] # 0 }
    IN  /\ \A q \in visible :
              /\ bb[1] <= q[1] /\ q[1] < bb[3]
              /\ bb[2] <= q[2] /\ q[2] < bb[4]
        /\ \E q \in visible : q[1] = bb[1]
        /\ \E q \in visible : q[2] = bb[2]
        /\ \E q \in visible : q[1] = bb[3] - 1
        /\ \E q \in visible : q[2] = bb[4] - 1

\* The run has cropped and not yet saved: heap[img] is the cropped raster,
\* bbox the box found, width and height the size before the crop.
Cropped == pc = "save" /\ bbox # None

\* C3: with (l, t, r, b) the bounding box of the pixels that are not fully
\* transparent, the crop is (max(0, l-5), max(0, t-5), min(W, r+5), min(H, b+5)):
\* it lies within the W x H image, holds every such pixel unchanged, and the
\* box of the visible pixels of the cropped image, moved back by the crop's
\* origin, is (l, t, r, b).
C3_CropIsClampedPaddedBox ==
    Cropped =>
        LET pre == Classify(src)
            out == heap[img]
            left == IF bbox[1] - 5 > 0 THEN bbox[1] - 5 ELSE 0
            top == IF bbox[2] - 5 > 0 THEN bbox[2] - 5 ELSE 0
            right == IF bbox[3] + 5 < width THEN bbox[3] + 5 ELSE width
            bottom == IF bbox[4] + 5 < height THEN bbox[4] + 5 ELSE height
        IN  /\ IsBoxOfVisible(bbox, pre)
            /\ 0 <= left /\ left < right /\ right <= width
            /\ 0 <= top /\ top < bottom /\ bottom <= height
            /\ SizeOf(out) = <<right - left, bottom - top>>
            /\ \A q \in Probes(pre) :
                  PixelAt(pre, q[1], q[2])[4] # 0 =>
                      /\ left <= q[1] /\ q[1] < right
                      /\ top <= q[2] /\ q[2] < bottom
                      /\ PixelAt(out, q[1] - left, q[2] - top) = PixelAt(pre, q[1], q[2])
            /\ IsBoxOfVisible(<< bbox[1] - left, bbox[2] - top,
                                 bbox[3] - left, bbox[4] - top >>, out)

\* A crop whose padding is clamped at the left and top edges and is the full
\* 5 pixels at the right and bottom ones.
C3_Witness ==
    /\ Cropped
    /\ bbox[1] < 5 /\ bbox[2] < 5
    /\ bbox[3] + 5 < width /\ bbox[4] + 5 < height
    /\ heap[img].w = bbox[3] + 5
    /\ heap[img].w < width

\* No pixel of the source passes the classification.
NoCarPixel ==
    /\ ~KeepRule(src.fill)
    /\ \A q \in DOMAIN src.pts : ~KeepRule(src.pts[q])

\* The image remove_dark_background saves and returns, once it is decided.
StageOneImage ==
    IF pc = "save" THEN heap[img] ELSE heap[transparent_img]

AfterCrop == pc \in { "save", "favicon", "sizes", "ico_build", "ico_save", "done" }

\* C4: when no pixel of the source passes the classification the crop is
\* skipped: the image saved and returned has the size of the source and
\* alpha 0 everywhere, and the run does not fail at the crop: it goes on to
\* the favicon and the multi-size export.
C4_BlankImageNotCropped ==
    (AfterCrop /\ NoCarPixel) =>
        /\ SizeOf(StageOneImage) = SizeOf(src)
        /\ \A q \in Probes(StageOneImage) : PixelAt(StageOneImage, q[1], q[2])[4] = 0
        /\ pc = "save" => bbox = None
        /\ status = "running" => ENABLED Next

\* A solid (20, 20, 20) source of 100 x 100 whose run has ended with the
\* seven files written, the favicon at 100 x 100.
C4_Witness ==
    /\ status = "done"
    /\ NoCarPixel
    /\ SizeOf(src) = <<100, 100>>
    /\ src.fill = <<20, 20, 20, 255>>
    /\ src.pts = EmptyPts
    /\ Len(files) = 7
    /\ files[1].frames = << <<100, 100>> >>
    /\ files[2].frames = << <<100, 100>> >>

\* favicon.png has been written: files[1] is the transparent image that
\* create_favicon was given, files[2] the favicon.
FaviconWritten == Len(files) >= 2

\* C5: for an input of w x h the favicon is at most min(w, 128) wide and
\* min(h, 128) high; an input within 128 x 128 keeps its size (50 x 50 stays
\* 50 x 50); otherwise the larger dimension becomes 128 and the other one is
\* the proportional value rounded down or up, never below 1 (500 x 300
\* gives 128 x 77).
C5_FaviconFitsNeverUpsizes ==
    FaviconWritten =>
        LET w == files[1].frames[1][1]
            h == files[1].frames[1][2]
            fw == files[2].frames[1][1]
            fh == files[2].frames[1][2]
        IN  /\ files[2].path = <<"client/public", "favicon.png">>
            /\ Len(files[2].frames) = 1
            /\ 1 <= fw /\ fw <= w /\ fw <= 128
            /\ 1 <= fh /\ fh <= h /\ fh <= 128
            /\ (w <= 128 /\ h <= 128) => (fw = w /\ fh = h)
            /\ (w > 128 \/ h > 128) =>
                  /\ w >= h => (fw = 128 /\ fh * w - 128 * h < w /\ 128 * h - fh * w < w)
                  /\ h >= w => (fh = 128 /\ fw * h - 128 * w < h /\ 128 * w - fw * h < h)
            /\ (w = 50 /\ h = 50) => (fw = 50 /\ fh = 50)
            /\ (w = 500 /\ h = 300) => (fw = 128 /\ fh = 77)

\* The favicon of a 500 x 300 transparent image: 128 x 77.
C5_Witness ==
    /\ FaviconWritten
    /\ files[1].frames = << <<500, 300>> >>
    /\ files[2].frames = << <<128, 77>> >>

\* C6: whatever the size of the image, favicon-16x16.png is written at 16 x 16,
\* favicon-32x32.png at 32 x 32, favicon-192x192.png at 192 x 192 and
\* apple-touch-icon.png at 180 x 180.
C6_ExactSquareSizes ==
    /\ Len(files) >= 3 =>
          /\ files[3].path = <<"client/public", "favicon-16x16.png">>
          /\ files[3].format = "PNG"
          /\ files[3].frames = << <<16, 16>> >>
    /\ Len(files) >= 4 =>
          /\ files[4].path = <<"client/public", "favicon-32x32.png">>
          /\ files[4].format = "PNG"
          /\ files[4].frames = << <<32, 32>> >>
    /\ Len(files) >= 5 =>
          /\ files[5].path = <<"client/public", "favicon-192x192.png">>
          /\ files[5].format = "PNG"
          /\ files[5].frames = << <<192, 192>> >>
    /\ Len(files) >= 6 =>
          /\ files[6].path = <<"client/public", "apple-touch-icon.png">>
          /\ files[6].format = "PNG"
          /\ files[6].frames = << <<180, 180>> >>

\* The four square icons of a 300 x 100 transparent image.
C6_Witness ==
    /\ Len(files) >= 6
    /\ files[1].frames = << <<300, 100>> >>
    /\ files[4].frames = << <<32, 32>> >>
    /\ files[6].frames = << <<180, 180>> >>

\* C7: favicon.ico embeds exactly three images, of 16 x 16, 32 x 32 and
\* 48 x 48 in that order: the sizes of the images handed to the writer.
C7_IcoEmbedsThreeSizes ==
    status = "done" =>
        /\ files[7].path = <<"client/public", "favicon.ico">>
        /\ files[7].format = "ICO"
        /\ files[7].frames = << <<16, 16>>, <<32, 32>>, <<48, 48>> >>

IsPrefix(a, b) == Len(a) <= Len(b) /\ SubSeq(b, 1, Len(a)) = a

\* A step starts in a run that has not failed, keeps the files written and,
\* when it fails, writes none and leaves the run where it was.
StepOfRunningKeepsFiles ==
    /\ status = "running"
    /\ IsPrefix(files, files')
    /\ status' = "failed" =>
          /\ files' = files
          /\ pc' = pc
          /\ (pc \in { "makedirs", "open" } => files' = <<>>)

\* C8: a failure ends the run: a step is only ever taken by a run that has
\* not failed; the failing step writes no file and the files written before
\* it stay as they are; after a failure of os.makedirs or of the loading of
\* the source no output file exists.
C8_FailureAbortsRunKeepsFiles == [][StepOfRunningKeepsFiles]_vars

\* The write of favicon-192x192.png has failed; the three files written
\* before it are there.
C8_Witness ==
    /\ status = "failed"
    /\ pc = "sizes"
    /\ idx = 3
    /\ Len(files) = 4
    /\ files[4].path = <<"client/public", "favicon-32x32.png">>

\* The seven output files, in the order of their writes.
ExpectedPaths ==
    << <<"client/public", "car-logo-transparent.png">>,
       <<"client/public", "favicon.png">>,
       <<"client/public", "favicon-16x16.png">>,
       <<"client/public", "favicon-32x32.png">>,
       <<"client/public", "favicon-192x192.png">>,
       <<"client/public", "apple-touch-icon.png">>,
       <<"client/public", "favicon.ico">> >>

\* The files written so far are the first ones of ExpectedPaths, as many as
\* the statement the run is at has behind it.
WrittenInOrder ==
    /\ IsPrefix([ i \in 1..Len(files) |-> files[i].path ], ExpectedPaths)
    /\ pc \in { "makedirs", "open", "classify", "crop", "save" } => Len(files) = 0
    /\ pc = "favicon" => Len(files) = 1
    /\ pc = "sizes" => Len(files) = 1 + idx
    /\ pc \in { "ico_build", "ico_save" } => Len(files) = 6
    /\ pc = "done" => Len(files) = 7
    /\ status = "done" <=> pc = "done"

\* C9: the run ends, and one in which no step fails ends having written each
\* of the seven files once, in the order car-logo-transparent.png,
\* favicon.png, favicon-16x16.png, favicon-32x32.png, favicon-192x192.png,
\* apple-touch-icon.png, favicon.ico, each stage after the one before it.
C9_RunEndsFilesInOrder ==
    /\ []WrittenInOrder
    /\ <>(status = "done" \/ status = "failed")
    /\ ([](status # "failed")) => <>(status = "done" /\ Len(files) = 7)

\* A run that has ended without a failure.
C9_Witness ==
    /\ status = "done"
    /\ [ i \in 1..Len(files) |-> files[i].path ] = ExpectedPaths

ExportPcs == { "favicon", "sizes", "ico_build", "ico_save", "done" }

\* A step of the export stages leaves the working image as it was.
ExportStepKeepsWorkingImage ==
    pc \in ExportPcs =>
        /\ transparent_img' = transparent_img
        /\ heap'[transparent_img'] = heap[transparent_img]

\* C10: from the return of remove_dark_background on, no step changes the
\* working image: its size and pixels are the same after every export step
\* as before it, and it is the image stage 1 saved, never a resampled one.
C10_WorkingImageNeverMutated ==
    /\ [][ExportStepKeepsWorkingImage]_vars
    /\ [](pc \in ExportPcs =>
              /\ ~heap[transparent_img].resampled
              /\ SizeOf(heap[transparent_img]) = files[1].frames[1])

\* The run has ended for a working image larger than every export.
C10_Witness ==
    /\ status = "done"
    /\ heap[transparent_img].w > 192
    /\ heap[transparent_img].h > 192
    /\ files[2].frames[1][1] = 128

====
